---- MODULE Spec2Model ----
(***************************************************************************)
(* replayr: the interaction engine of src/main.rs as a state machine.      *)
(*                                                                         *)
(* Every proxy request is a task that moves through the await points of    *)
(* proxy_handler_impl, maybe_intercept and store_interaction; every admin  *)
(* handler that holds a single lock for its whole body is one action.      *)
(* Option<T> is modelled as a set with at most one element ({} is None).   *)
(***************************************************************************)
EXTENDS Integers, Sequences, FiniteSets, TLC

(* ------------------------------ bounds --------------------------------- *)

\* proxy requests of the intercept scenarios
NIcpt == 1
\* proxy requests of the ring / broadcast scenarios
NRing == 2
\* proxy requests of the egress (redaction) scenarios
NEgress == 1
\* proxy requests of the admin scenarios
NAdmin == 1
\* proxy requests of the list scenarios
NList == 2
\* proxy requests of the predicate scenarios
NPred == 1
\* proxy requests of the streaming / upstream error scenarios
NStream == 1
\* proxy requests of the recording scenarios
NRec == 2

NGone == 2

NBody == 1

NWs == 2

NLock == 2

NSse == 1

NPat == 1

NProbe == 1

MaxTime == 2
\* largest ring_size a scenario starts with
MaxRingSize == 2
\* backlog of the broadcast channel kept for a subscriber
BusCap == 1

Max2(a, b) == IF a >= b THEN a ELSE b

NMax == Max2(Max2(Max2(NIcpt, NRing), Max2(NEgress, NAdmin)),
             Max2(Max2(NList, NPred), Max2(NStream, Max2(NRec, Max2(NGone, Max2(NBody, Max2(NWs, Max2(NLock, Max2(NSse, Max2(NPat, NProbe))))))))))

Task == 1 .. NMax

(* --------------------------- Option helpers ---------------------------- *)

None == {}

Some(x) == {x}

Unwrap(o) == CHOOSE x \in o : TRUE

(* ------------------------------ headers -------------------------------- *)

\* to_ascii_lowercase on the header names the model uses
Lower(n) ==
    CASE n = "Authorization" -> "authorization"
      [] n = "X-Api-Key"     -> "x-api-key"
      [] n = "Cookie"        -> "cookie"
      [] n = "Host"          -> "host"
      [] n = "Content-Type"  -> "content-type"
      [] OTHER               -> n

SensitiveNames == {"authorization", "x-api-key", "api-key"}

EmptyMap == [k \in {} |-> "x"]

\* HeaderMap -> HashMap<String, String> with lower-cased names
headers_to_map(h) ==
    [k \in {Lower(n) : n \in DOMAIN h} |->
        h[CHOOSE n \in DOMAIN h : Lower(n) = k]]

\* the three literal keys are overwritten when the map contains them
redact_headers(h) ==
    [k \in DOMAIN h |-> IF k \in SensitiveNames THEN "REDACTED" ELSE h[k]]

redact_interaction(i) ==
    [i EXCEPT !.request.headers  = redact_headers(i.request.headers),
              !.response.headers = redact_headers(i.response.headers)]

\* --modify-header / --delete-header of the modelled run
header_sets == ("x-trace" :> "on")

header_deletes == {"cookie"}

MapInsertAll(h, s) ==
    [k \in DOMAIN h \cup DOMAIN s |-> IF k \in DOMAIN s THEN s[k] ELSE h[k]]

MapRemoveAll(h, names) == [k \in DOMAIN h \ names |-> h[k]]

\* the headers the upstream request is built with: host and content-length
\* are skipped, every other name is normalised by HeaderName::from_bytes
upstream_headers(h) ==
    headers_to_map([k \in {n \in DOMAIN h : n \notin {"host", "content-length"}}
                       |-> h[k]])

(* ------------------------------- bodies -------------------------------- *)

JNull == [t |-> "null", s |-> ""]

JString(s) == [t |-> "string", s |-> s]

\* any other JSON value, kept as its compact serialisation
JOther(c) == [t |-> "json", s |-> c]

\* a request body the body modifier of the modelled run rewrites, and its result
BodyDraft == "{\"model\":\"draft\"}"

BodyFinal == "{\"model\":\"final\"}"

\* the response texts of the modelled upstreams
BodyOk == "{\"ok\":true}"

BodyUsage == "{\"usage\":{\"input_tokens\":2,\"output_tokens\":3}}"

BodyUsageHalf == "{\"usage\":{\"prompt_tokens\":2}}"

BodyUsageHuge ==
    "{\"usage\":{\"input_tokens\":18446744073709551615,\"output_tokens\":1}}"

ChunkA == "data: {\"usage\":{\"input_tokens\":4}}\n\n"

ChunkB == "data: {\"usage\":{\"input_tokens\":4,\"output_tokens\":6}}\n\n"

\* serde_json::from_str::<Value> on the texts the model uses: the value, or
\* None where the text is not JSON
json_parse(text) ==
    CASE text = "{\"model\":\"X\"}"        -> Some(JOther("{\"model\":\"X\"}"))
      [] text = "{ \"model\" : \"Y\" }"    -> Some(JOther("{\"model\":\"Y\"}"))
      [] text = "{\"model\":\"Y\"}"        -> Some(JOther("{\"model\":\"Y\"}"))
      [] text = BodyDraft                  -> Some(JOther(BodyDraft))
      [] text = BodyFinal                  -> Some(JOther(BodyFinal))
      [] text = "[1, 2]"                   -> Some(JOther("[1,2]"))
      [] text = "[1,2]"                    -> Some(JOther("[1,2]"))
      [] text = BodyOk                     -> Some(JOther(BodyOk))
      [] text = BodyUsage                  -> Some(JOther(BodyUsage))
      [] text = BodyUsageHalf              -> Some(JOther(BodyUsageHalf))
      [] text = BodyUsageHuge              -> Some(JOther(BodyUsageHuge))
      [] text = "7"                        -> Some(JOther("7"))
      [] text = "null"                     -> Some(JNull)
      [] text = "\"hi\""                   -> Some(JString("hi"))
      [] OTHER                             -> None

\* line 951: the parsed value, else Value::String of the text
text_to_json_or_string(text) ==
    IF json_parse(text) # None THEN Unwrap(json_parse(text)) ELSE JString(text)

bytes_to_value(bytes) ==
    IF bytes = "" THEN JNull ELSE text_to_json_or_string(bytes)

json_value_to_body_string(v) ==
    CASE v.t = "null"   -> ""
      [] v.t = "string" -> v.s
      [] OTHER          -> v.s

\* --modify-body /draft/final/ of the modelled run: Regex::replace_all on the
\* texts the model uses; only BodyDraft holds a match
modifier_replace_all(text) == IF text = BodyDraft THEN BodyFinal ELSE text

\* lines 921-932
apply_modifier(value) ==
    LET raw     == json_value_to_body_string(value)
        updated == modifier_replace_all(raw)
    IN IF updated = raw THEN None ELSE Some(text_to_json_or_string(updated))

(* ------------------------------ metadata ------------------------------- *)

PathContains(path, needle) ==
    CASE needle = "/v1/messages" -> path \in {"/v1/messages"}
      [] OTHER                   -> FALSE

detect_provider(path, headers) ==
    IF PathContains(path, "/v1/messages") /\ "x-api-key" \in DOMAIN headers
    THEN Some("anthropic")
    ELSE None

extract_model(body) ==
    CASE body = JOther("{\"model\":\"X\"}") -> Some("X")
      [] body = JOther("{\"model\":\"Y\"}") -> Some("Y")
      [] body = JOther(BodyDraft)           -> Some("draft")
      [] body = JOther(BodyFinal)           -> Some("final")
      [] OTHER                              -> None

(* --------------------------- usage extractor --------------------------- *)

\* a u64 is four 16-bit limbs, most significant first
LimbBase == 65536

U64(n) == << 0, 0, 0, n >>

U64Max == << 65535, 65535, 65535, 65535 >>

\* the sum of two u64 limb by limb: the 64 bits kept, and the carry out
U64Add(a, b) ==
    LET s4 == a[4] + b[4]
        s3 == a[3] + b[3] + (s4 \div LimbBase)
        s2 == a[2] + b[2] + (s3 \div LimbBase)
        s1 == a[1] + b[1] + (s2 \div LimbBase)
    IN [sum   |-> << s1 % LimbBase, s2 % LimbBase, s3 % LimbBase, s4 % LimbBase >>,
        carry |-> s1 \div LimbBase]

\* i + o of lines 1021 and 1030 where it does not panic: the wrapped sum
wrapping_add(a, b) == U64Add(a, b).sum

\* i + o with overflow checks on (a debug build): the addition panics
add_overflows(a, b) == U64Add(a, b).carry # 0

JNumber(n) == [t |-> "u64", n |-> n]

\* Value::as_u64
as_u64(v) == IF v.t = "u64" THEN Some(v.n) ELSE None

NoUsage ==
    [input_tokens |-> None, prompt_tokens |-> None,
     output_tokens |-> None, completion_tokens |-> None]

\* value.get("usage") on the parsed texts the model uses: the members read
json_get_usage(v) ==
    CASE v = JOther(BodyUsage) ->
             Some([NoUsage EXCEPT !.input_tokens = Some(JNumber(U64(2))),
                                  !.output_tokens = Some(JNumber(U64(3)))])
      [] v = JOther(BodyUsageHalf) ->
             Some([NoUsage EXCEPT !.prompt_tokens = Some(JNumber(U64(2)))])
      [] v = JOther(BodyUsageHuge) ->
             Some([NoUsage EXCEPT !.input_tokens = Some(JNumber(U64Max)),
                                  !.output_tokens = Some(JNumber(U64(1)))])
      [] OTHER -> None

\* Option::or_else, Option::and_then
OrElse(a, b) == IF a # None THEN a ELSE b

AndThenU64(o) == IF o # None THEN as_u64(Unwrap(o)) ELSE None

\* the last capture of a regex of lines 1035-1036 in the texts the model uses
sse_last_capture(body, field) ==
    CASE body = ChunkA /\ field = "input_tokens"             -> Some(U64(4))
      [] body = ChunkB /\ field = "input_tokens"             -> Some(U64(4))
      [] body = ChunkB /\ field = "output_tokens"            -> Some(U64(6))
      [] body = ChunkA \o ChunkB /\ field = "input_tokens"  -> Some(U64(4))
      [] body = ChunkA \o ChunkB /\ field = "output_tokens" -> Some(U64(6))
      [] OTHER                                               -> None

extract_tokens_from_sse(body) ==
    LET input  == sse_last_capture(body, "input_tokens")
        output == sse_last_capture(body, "output_tokens")
    IN IF input # None /\ output # None
       THEN Some([i |-> Unwrap(input), o |-> Unwrap(output)])
       ELSE None

\* the two sides extract_usage_tokens is about to add, if it adds
usage_sides(body) ==
    LET parsed == json_parse(body)
    IN IF parsed # None
       THEN LET usage == json_get_usage(Unwrap(parsed))
            IN IF usage = None THEN None
               ELSE LET u      == Unwrap(usage)
                        input  == AndThenU64(OrElse(u.input_tokens, u.prompt_tokens))
                        output == AndThenU64(OrElse(u.output_tokens,
                                                    u.completion_tokens))
                    IN IF input # None /\ output # None
                       THEN Some([i |-> Unwrap(input), o |-> Unwrap(output)])
                       ELSE None
       ELSE extract_tokens_from_sse(body)

\* the addition of the extractor overflows on this text
usage_overflows(body) ==
    /\ usage_sides(body) # None
    /\ add_overflows(Unwrap(usage_sides(body)).i, Unwrap(usage_sides(body)).o)

MetadataDefault ==
    [provider |-> None, model |-> None, input_tokens |-> None,
     output_tokens |-> None, total_tokens |-> None,
     latency_ms |-> 0, latency_to_first_chunk_ms |-> None]

\* lines 1007-1032
extract_usage_tokens(metadata, body) ==
    LET parsed == json_parse(body)
    IN IF parsed # None
       THEN LET usage == json_get_usage(Unwrap(parsed))
            IN IF usage = None THEN metadata
               ELSE LET u      == Unwrap(usage)
                        input  == AndThenU64(OrElse(u.input_tokens, u.prompt_tokens))
                        output == AndThenU64(OrElse(u.output_tokens,
                                                    u.completion_tokens))
                    IN [metadata EXCEPT
                          !.input_tokens  = input,
                          !.output_tokens = output,
                          !.total_tokens  =
                              IF input # None /\ output # None
                              THEN Some(wrapping_add(Unwrap(input), Unwrap(output)))
                              ELSE None]
       ELSE LET sse == extract_tokens_from_sse(body)
            IN IF sse = None THEN metadata
               ELSE [metadata EXCEPT
                       !.input_tokens  = Some(Unwrap(sse).i),
                       !.output_tokens = Some(Unwrap(sse).o),
                       !.total_tokens  = Some(wrapping_add(Unwrap(sse).i,
                                                           Unwrap(sse).o))]

(* ------------------------- predicate evaluator ------------------------- *)

PTrue == "true"

PPath == "request.path.contains('/v1/messages')"

\* true of every request once the header edits are made, false before
PTrace == "request.headers['x-trace'] == 'on'"

\* false of every request once the header edits are made
PCookie == "'cookie' in request.headers"

\* true of a request whose body the modifier has rewritten
PFinal == "request.body.model == 'final'"

\* predicates that read the value of the authorization header, by the name
\* the proxy stores and by the name a client may write
PAuth == "request.headers['authorization'] == 'secret'"

PAuthUpper == "request.headers['Authorization'] == 'secret'"

\* request.headers[name] == value: a missing key fails the evaluation
HeaderIs(i, name, value) ==
    name \in DOMAIN i.request.headers /\ i.request.headers[name] = value

PBroken == "request.path.contains("

PNonBool == "request.method"

\* compiles, and fails when run: the header map has no such key
PRuntime == "request.headers['nope'] == 'x'"

\* the predicates that compile to nothing, yield no boolean or fail when run
BadPredicates == {PBroken, PNonBool, PRuntime}

\* mutant of evaluate_expression: a predicate that does not evaluate counts as
\* true
evaluate_expression_lenient(expr, i) ==
    CASE expr = PTrue -> TRUE
      [] expr = PPath -> PathContains(i.request.path, "/v1/messages")
      [] expr = PTrace -> HeaderIs(i, "x-trace", "on")
      [] expr = PCookie -> "cookie" \in DOMAIN i.request.headers
      [] expr = PFinal -> extract_model(i.request.body) = Some("final")
      [] expr = PAuth -> HeaderIs(i, "authorization", "secret")
      [] expr = PAuthUpper -> HeaderIs(i, "Authorization", "secret")
      [] OTHER        -> TRUE

\* Program::compile + execute on the expressions the model uses
evaluate_expression(expr, i) ==
    CASE expr = PTrue -> TRUE
      [] expr = PPath -> PathContains(i.request.path, "/v1/messages")
      [] expr = PTrace -> HeaderIs(i, "x-trace", "on")
      [] expr = PCookie -> "cookie" \in DOMAIN i.request.headers
      [] expr = PFinal -> extract_model(i.request.body) = Some("final")
      [] expr = PAuth -> HeaderIs(i, "authorization", "secret")
      [] expr = PAuthUpper -> HeaderIs(i, "Authorization", "secret")
      [] OTHER        -> FALSE

(* -------------------------- inputs of a run ---------------------------- *)

\* --upstream, kept apart from the path so that a URL is a record
UpstreamBase == "http://upstream"

InboundA ==
    [method  |-> "POST", path |-> "/v1/messages", query |-> "",
     headers |-> ("X-Api-Key" :> "secret") @@ ("content-type" :> "json"),
     body    |-> "{\"model\":\"X\"}"]

InboundB ==
    [method  |-> "GET", path |-> "/other", query |-> "q=1",
     headers |-> ("Authorization" :> "secret") @@ ("Cookie" :> "c"),
     body    |-> ""]

Inbound == {InboundA, InboundB}

\* a request whose body the modifier rewrites
InboundC == [InboundA EXCEPT !.path = "/draft", !.body = BodyDraft]

\* one item of the upstream body as reqwest yields it: bytes, or a read error
ItemOk(text) == [ok |-> TRUE, data |-> text]

ItemErr == [ok |-> FALSE, data |-> ""]

\* what the upstream answers with: a buffered JSON response
UpstreamOk ==
    [status  |-> 200,
     headers |-> ("content-type" :> "json") @@ ("Authorization" :> "secret"),
     items   |-> << ItemOk(BodyOk) >>]

UpstreamJson(text) ==
    [status  |-> 200,
     headers |-> ("content-type" :> "json"),
     items   |-> << ItemOk(text) >>]

\* a buffered response whose body cannot be read to its end
UpstreamBodyErr ==
    [status  |-> 200,
     headers |-> ("content-type" :> "json"),
     items   |-> << ItemErr >>]

\* an event stream of the given items
UpstreamSse(items) ==
    [status  |-> 200,
     headers |-> ("Content-Type" :> "text/event-stream"),
     items   |-> items]

\* the buffered responses with a usage object
UpstreamUsages ==
    { UpstreamJson(BodyUsage), UpstreamJson(BodyUsageHalf),
      UpstreamJson(BodyUsageHuge) }

\* the event streams: two chunks, no chunk, a chunk and then a read error
UpstreamStreams ==
    { UpstreamSse(<< ItemOk(ChunkA), ItemOk(ChunkB) >>),
      UpstreamSse(<< >>),
      UpstreamSse(<< ItemOk(ChunkA), ItemErr >>) }

\* ReleaseRequest bodies an operator posts
ReleaseInputs ==
    { [headers |-> None, body |-> None],
      [headers |-> Some(("Authorization" :> "secret") @@ ("host" :> "h")),
       body    |-> None],
      [headers |-> None, body |-> Some("{ \"model\" : \"Y\" }")] }

\* inbound bodies that are JSON text: an object with whitespace, an array, a
\* number, a string and null
JsonTexts == {"{ \"model\" : \"Y\" }", "[1, 2]", "7", "\"hi\"", "null"}

InboundJson == {[InboundA EXCEPT !.body = b] : b \in JsonTexts}

Patterns == {PPath, PBroken}

SessionPath == "session.json"

SavePath == "saved.json"

Paths == {SessionPath, SavePath}

(* ------------------------------- state --------------------------------- *)

VARIABLES
    ring_size,          \* args.ring_size
    ring,               \* AppState.ring, front of the VecDeque first
    record,             \* AppState.record: RecordState
    files,              \* the file system: path -> Option<interactions of the cassette>
    intercept_pattern,  \* AppState.intercept_pattern: Option<String>
    intercept_queue,    \* AppState.intercept_queue: id -> InterceptEntry
    chan,               \* the oneshot channels: id -> [msg, rx]
    clock,              \* Utc::now()
    task,               \* the proxy tasks: their position and locals
    ws,                 \* the WebSocket session and its broadcast receiver
    admin,              \* the admin response of this step, if any: [op, id, status, n]
    out,                \* the payload that left the core in this step, if any
    hist,               \* history: what was stored, published and resolved so far
    locks,              \* the mutexes of AppState: the task that holds each, 0 when free
    instant             \* Instant::now(), in milliseconds

vars == << ring_size, ring, record, files, intercept_pattern, intercept_queue,
           chan, clock, task, ws, admin, out, hist, locks, instant >>

ActionDrop == [kind |-> "Drop", headers |-> None, body |-> None]

ActionRelease(input) ==
    [kind |-> "Release", headers |-> input.headers, body |-> input.body]

TaskInit ==
    [pc |-> "idle", inbound |-> None, stored_req |-> None, orig_req |-> None,
     action |-> None, wake |-> "none", interaction |-> None,
     upstream_req |-> None, rec_path |-> None, status |-> 0,
     resp |-> None, pos |-> 0, chunks |-> << >>, snapshot |-> None,
     start |-> 0, last_chunk |-> 0, first_chunk_latency |-> None,
     arrived |-> << >>]

HistInit ==
    [stored |-> {}, order |-> << >>, published |-> {}, cleared |-> FALSE,
     ok_calls |-> [i \in {} |-> 0], removed |-> [i \in {} |-> 0],
     sends |-> [i \in {} |-> 0], sent |-> [i \in {} |-> None],
     writes |-> 0, failed |-> FALSE, toggled |-> FALSE,
     heard |-> << >>, pushed |-> << >>]

\* AppState, lines 155-166: each shared part has its own tokio Mutex
Locks == {"ring", "record", "intercept_pattern", "intercept_queue"}

\* lock().await returns only while no task holds the mutex
Free(l) == locks[l] = 0

AdminNone == [op |-> "none", id |-> 0, status |-> 0, n |-> 0, arg |-> None]

OutNone == [via |-> "none", items |-> << >>]

\* a step that answers no admin call and lets nothing out of the core
Quiet == admin' = AdminNone /\ out' = OutNone

\* run_proxy: the state after construction, for the given arguments
InitWith(rs, pattern, recording) ==
    /\ ring_size = rs
    /\ ring = << >>
    /\ record = [enabled |-> recording, output |-> SessionPath, count |-> 0]
    /\ files = [p \in Paths |-> None]
    /\ intercept_pattern = pattern
    /\ intercept_queue = [i \in {} |-> 0]
    /\ chan = [i \in {} |-> 0]
    /\ clock = 0
    /\ task = [t \in Task |-> TaskInit]
    /\ ws = [state |-> "none", peer |-> "up", queue |-> << >>, lagged |-> FALSE]
    /\ admin = AdminNone
    /\ out = OutNone
    /\ hist = HistInit
    /\ locks = [l \in Locks |-> 0]
    /\ instant = 0

(* ------------------------- the proxy data path ------------------------- *)

Put(f, k, v) == [x \in DOMAIN f \cup {k} |-> IF x = k THEN v ELSE f[x]]

Del(f, k) == [x \in DOMAIN f \ {k} |-> f[x]]

\* Uuid::new_v4() of line 469: ids are unique; the t-th request's is t
interaction_id(t) == t

\* Uuid::new_v4() of line 509: unique, and apart from every interaction id
intercept_id(t) == NMax + t

\* the synthetic interaction the intercept pattern is evaluated on
fake_interaction(req) ==
    [id |-> 0, recorded_at |-> 0, request |-> req,
     response |-> [status |-> 0, headers |-> EmptyMap, streaming |-> FALSE,
                   chunks |-> << >>, body |-> None],
     metadata |-> MetadataDefault]

\* lines 322-342: header edits, body parse, StoredRequest
build_stored_req(r) ==
    [method  |-> r.method,
     path    |-> r.path,
     headers |-> MapRemoveAll(MapInsertAll(headers_to_map(r.headers), header_sets),
                              header_deletes),
     body    |-> IF apply_modifier(bytes_to_value(r.body)) # None
                 THEN Unwrap(apply_modifier(bytes_to_value(r.body)))
                 ELSE bytes_to_value(r.body)]

\* maybe_intercept up to the decision: the pattern is read once, under its lock
intercept_matches(pattern, req) ==
    /\ pattern # None
    /\ evaluate_expression(Unwrap(pattern), fake_interaction(req))

\* mutant of proxy_start: the pattern is evaluated on the request as it came,
\* before the header edits and the body modifier
proxy_start_unedited(t, r) ==
    /\ task[t].pc = "idle"
    /\ IF t = 1 THEN TRUE ELSE task[t - 1].pc # "idle"
    /\ LET req == build_stored_req(r)
           raw == [req EXCEPT !.headers = headers_to_map(r.headers),
                              !.body = bytes_to_value(r.body)]
       IN task' = [task EXCEPT ![t].pc = IF intercept_matches(intercept_pattern, raw)
                                         THEN "enqueue" ELSE "forward",
                               ![t].start = instant,
                               ![t].inbound = Some(r),
                               ![t].stored_req = Some(req),
                               ![t].orig_req = Some(req)]
    /\ Quiet
    /\ UNCHANGED << instant, locks, ring_size, ring, record, files, intercept_pattern,
                    intercept_queue, chan, clock, ws, hist >>

\* a request arrives: proxy_handler_impl up to the first shared access after
\* the pattern lock; requests are numbered in the order they arrive
proxy_start(t, r) ==
    /\ task[t].pc = "idle"
    /\ IF t = 1 THEN TRUE ELSE task[t - 1].pc # "idle"
    /\ LET req == build_stored_req(r)
       IN task' = [task EXCEPT ![t].pc = IF intercept_matches(intercept_pattern, req)
                                         THEN "enqueue" ELSE "forward",
                               ![t].start = instant,
                               ![t].inbound = Some(r),
                               ![t].stored_req = Some(req),
                               ![t].orig_req = Some(req)]
    /\ Quiet
    /\ UNCHANGED << instant, locks, ring_size, ring, record, files, intercept_pattern,
                    intercept_queue, chan, clock, ws, hist >>

\* the entry the registry keeps: the request with redacted headers and the sender
intercept_entry(req) ==
    [request |-> [req EXCEPT !.headers = redact_headers(req.headers)],
     sender  |-> TRUE]

\* maybe_intercept, lines 509-524: allocate the id and the oneshot, insert
intercept_enqueue(t) ==
    /\ task[t].pc = "enqueue"
    /\ LET id == intercept_id(t)
       IN /\ intercept_queue' = Put(intercept_queue, id,
                                    intercept_entry(Unwrap(task[t].stored_req)))
          /\ chan' = Put(chan, id, [msg |-> None, rx |-> TRUE])
          /\ hist' = [hist EXCEPT !.ok_calls = Put(@, id, 0),
                                  !.removed = Put(@, id, 0),
                                  !.sends = Put(@, id, 0),
                                  !.sent = Put(@, id, None)]
    /\ task' = [task EXCEPT ![t].pc = "waiting"]
    /\ Quiet
    /\ UNCHANGED << instant, locks, ring_size, ring, record, files, intercept_pattern, clock, ws >>

\* mutant of apply_release: the supplied headers are merged into the old ones
apply_release_merged(req, action) ==
    [req EXCEPT !.headers = IF action.headers # None
                            THEN MapInsertAll(@, Unwrap(action.headers)) ELSE @,
                !.body    = IF action.body # None
                            THEN text_to_json_or_string(Unwrap(action.body))
                            ELSE @]

\* lines 349-356: the replacements of a Release
apply_release(req, action) ==
    [req EXCEPT !.headers = IF action.headers # None THEN Unwrap(action.headers)
                            ELSE @,
                !.body    = IF action.body # None
                            THEN text_to_json_or_string(Unwrap(action.body))
                            ELSE @]

\* mutant of after_intercept: a Drop does not return, the request goes on
after_intercept_fallthrough(tk, action, how) ==
    [tk EXCEPT !.pc = "forward", !.action = Some(action), !.wake = how]

\* lines 344-358: what the data path does with the action it woke up with
after_intercept(tk, action, how) ==
    IF action.kind = "Drop"
    THEN [tk EXCEPT !.pc = "done", !.status = 204, !.action = Some(action),
                    !.wake = how]
    ELSE [tk EXCEPT !.pc = "forward", !.action = Some(action), !.wake = how,
                    !.stored_req = Some(apply_release(Unwrap(tk.stored_req), action))]

\* line 526: the receiver yields the action the operator sent
intercept_wake(t) ==
    /\ task[t].pc = "waiting"
    /\ LET id == intercept_id(t)
       IN /\ chan[id].msg # None
          /\ task' = [task EXCEPT ![t] = after_intercept(@, Unwrap(chan[id].msg), "msg")]
          /\ chan' = [chan EXCEPT ![id] = [msg |-> None, rx |-> FALSE]]
    /\ Quiet
    /\ UNCHANGED << instant, locks, ring_size, ring, record, files, intercept_pattern,
                    intercept_queue, clock, ws, hist >>

\* line 527: 300 s went by with nothing received; the receiver is dropped
intercept_timeout(t) ==
    /\ task[t].pc = "waiting"
    /\ LET id == intercept_id(t)
       IN /\ chan[id].msg = None
          /\ task' = [task EXCEPT ![t] = after_intercept(@, ActionDrop, "timeout")]
          /\ chan' = [chan EXCEPT ![id].rx = FALSE]
    /\ Quiet
    /\ UNCHANGED << instant, locks, ring_size, ring, record, files, intercept_pattern,
                    intercept_queue, clock, ws, hist >>

\* lines 360-377: the request the upstream sees
build_upstream_req(r, req) ==
    [method  |-> r.method,
     url     |-> [base |-> UpstreamBase, path |-> r.path, query |-> r.query],
     headers |-> upstream_headers(req.headers),
     body    |-> json_value_to_body_string(req.body)]

\* lines 384-387: the response is an event stream
is_streaming(response_headers) ==
    /\ "content-type" \in DOMAIN response_headers
    /\ response_headers["content-type"] \in {"text/event-stream"}

\* the bytes of a body whose items all arrived
RECURSIVE concat_data(_)
concat_data(items) ==
    IF items = << >> THEN "" ELSE items[1].data \o concat_data(Tail(items))

body_read_ok(resp) == \A k \in 1 .. Len(resp.items) : resp.items[k].ok

\* lines 389-391: provider and model come from the stored request
request_metadata(req) ==
    [MetadataDefault EXCEPT !.provider = detect_provider(req.path, req.headers),
                            !.model = extract_model(req.body)]

\* lines 431-432 and 463: the latencies are set before the usage is extracted
with_timing(metadata, timing) ==
    [metadata EXCEPT !.latency_ms = timing.latency_ms,
                     !.latency_to_first_chunk_ms = timing.latency_to_first_chunk_ms]

\* line 463: a buffered response has no first chunk
buffered_timing(tk) ==
    [latency_ms |-> instant - tk.start, latency_to_first_chunk_ms |-> None]

\* lines 431-432: the latencies of a stream, read when it has ended
stream_timing(tk) ==
    [latency_ms |-> instant - tk.start,
     latency_to_first_chunk_ms |-> tk.first_chunk_latency]

\* lines 380-391 and 454-480: the Interaction of a buffered response
build_interaction(id, now, req, resp, timing) ==
    [id |-> id, recorded_at |-> now, request |-> req,
     response |-> [status    |-> resp.status,
                   headers   |-> redact_headers(headers_to_map(resp.headers)),
                   streaming |-> FALSE,
                   chunks    |-> << >>,
                   body      |-> Some(text_to_json_or_string(concat_data(resp.items)))],
     metadata |-> extract_usage_tokens(with_timing(request_metadata(req), timing),
                                       concat_data(resp.items))]

\* mutant of build_stream_interaction: the merged text is kept as the body too
build_stream_interaction_with_body(id, now, req, resp, chunks, timing) ==
    [id |-> id, recorded_at |-> now, request |-> req,
     response |-> [status    |-> resp.status,
                   headers   |-> redact_headers(headers_to_map(resp.headers)),
                   streaming |-> TRUE,
                   chunks    |-> chunks,
                   body      |-> Some(text_to_json_or_string(concat_data(chunks)))],
     metadata |-> extract_usage_tokens(with_timing(request_metadata(req), timing),
                                       concat_data(chunks))]

\* lines 431-446: the Interaction of an event stream that has ended
build_stream_interaction(id, now, req, resp, chunks, timing) ==
    [id |-> id, recorded_at |-> now, request |-> req,
     response |-> [status    |-> resp.status,
                   headers   |-> redact_headers(headers_to_map(resp.headers)),
                   streaming |-> TRUE,
                   chunks    |-> chunks,
                   body      |-> None],
     metadata |-> extract_usage_tokens(with_timing(request_metadata(req), timing),
                                       concat_data(chunks))]

\* the upstream call answers with a buffered response that is read to its end:
\* the Interaction is built, recorded_at is read
proxy_forward(t, resp) ==
    /\ task[t].pc = "forward"
    /\ ~is_streaming(headers_to_map(resp.headers))
    /\ body_read_ok(resp)
    /\ clock' = clock + 1
    /\ LET req == Unwrap(task[t].stored_req)
       IN task' = [task EXCEPT
                     ![t].pc = "store",
                     ![t].resp = Some(resp),
                     ![t].upstream_req =
                         Some(build_upstream_req(Unwrap(task[t].inbound), req)),
                     ![t].interaction =
                         Some(build_interaction(interaction_id(t), clock', req, resp,
                                                buffered_timing(task[t])))]
    /\ Quiet
    /\ UNCHANGED << instant, locks, ring_size, ring, record, files, intercept_pattern,
                    intercept_queue, chan, ws, hist >>

\* line 454 fails: the buffered body cannot be read; proxy_handler answers 502
proxy_body_error(t, resp) ==
    /\ task[t].pc = "forward"
    /\ ~is_streaming(headers_to_map(resp.headers))
    /\ ~body_read_ok(resp)
    /\ LET req == Unwrap(task[t].stored_req)
       IN task' = [task EXCEPT
                     ![t].pc = "done",
                     ![t].status = 502,
                     ![t].resp = Some(resp),
                     ![t].upstream_req =
                         Some(build_upstream_req(Unwrap(task[t].inbound), req))]
    /\ Quiet
    /\ UNCHANGED << instant, locks, ring_size, ring, record, files, intercept_pattern,
                    intercept_queue, chan, clock, ws, hist >>

\* lines 398-451: the response is an event stream; status and headers go to
\* the client, the body generator starts
proxy_stream_open(t, resp) ==
    /\ task[t].pc = "forward"
    /\ is_streaming(headers_to_map(resp.headers))
    /\ LET req == Unwrap(task[t].stored_req)
       IN task' = [task EXCEPT
                     ![t].pc = "stream",
                     ![t].last_chunk = instant,
                     ![t].status = resp.status,
                     ![t].resp = Some(resp),
                     ![t].upstream_req =
                         Some(build_upstream_req(Unwrap(task[t].inbound), req))]
    /\ Quiet
    /\ UNCHANGED << instant, locks, ring_size, ring, record, files, intercept_pattern,
                    intercept_queue, chan, clock, ws, hist >>

\* lines 413-430: the next item of the upstream stream; bytes are captured as a
\* chunk and yielded to the client, an error item is passed over
stream_next(t) ==
    /\ task[t].pc = "stream"
    /\ task[t].pos < Len(Unwrap(task[t].resp).items)
    /\ LET item == Unwrap(task[t].resp).items[task[t].pos + 1]
       IN task' = IF item.ok
                  THEN [task EXCEPT
                          ![t].pos = @ + 1,
                          ![t].chunks =
                              Append(@, [delay_ms |-> instant - task[t].last_chunk,
                                         data     |-> item.data]),
                          ![t].last_chunk = instant,
                          ![t].first_chunk_latency =
                              IF @ = None THEN Some(instant - task[t].start) ELSE @,
                          ![t].arrived = Append(@, instant)]
                  ELSE [task EXCEPT ![t].pos = @ + 1]
    /\ Quiet
    /\ UNCHANGED << instant, locks, ring_size, ring, record, files, intercept_pattern,
                    intercept_queue, chan, clock, ws, hist >>

\* mutant of stream_end: the body ends for the client with the Interaction
\* built and not handed to store_interaction
stream_end_detached(t) ==
    /\ task[t].pc = "stream"
    /\ task[t].pos = Len(Unwrap(task[t].resp).items)
    /\ clock' = clock + 1
    /\ task' = [task EXCEPT
                  ![t].pc = "done",
                  ![t].interaction =
                      Some(build_stream_interaction(interaction_id(t), clock',
                                                    Unwrap(task[t].stored_req),
                                                    Unwrap(task[t].resp),
                                                    task[t].chunks,
                                                    stream_timing(task[t])))]
    /\ Quiet
    /\ UNCHANGED << instant, locks, ring_size, ring, record, files, intercept_pattern,
                    intercept_queue, chan, ws, hist >>

\* lines 431-446: the upstream stream is over; the Interaction is built
stream_end(t) ==
    /\ task[t].pc = "stream"
    /\ task[t].pos = Len(Unwrap(task[t].resp).items)
    /\ clock' = clock + 1
    /\ task' = [task EXCEPT
                  ![t].pc = "store",
                  ![t].interaction =
                      Some(build_stream_interaction(interaction_id(t), clock',
                                                    Unwrap(task[t].stored_req),
                                                    Unwrap(task[t].resp),
                                                    task[t].chunks,
                                                    stream_timing(task[t])))]
    /\ Quiet
    /\ UNCHANGED << instant, locks, ring_size, ring, record, files, intercept_pattern,
                    intercept_queue, chan, ws, hist >>

\* lines 1021 and 1030 in a build with overflow checks: the addition panics,
\* the task ends ("aborted": the connection is closed on the client) with no
\* Interaction built
usage_panic(t, resp) ==
    /\ \/ /\ task[t].pc = "forward"
          /\ ~is_streaming(headers_to_map(resp.headers))
          /\ body_read_ok(resp)
          /\ usage_overflows(concat_data(resp.items))
       \/ /\ task[t].pc = "stream"
          /\ task[t].resp = Some(resp)
          /\ task[t].pos = Len(resp.items)
          /\ usage_overflows(concat_data(task[t].chunks))
    /\ task' = [task EXCEPT ![t].pc = "aborted", ![t].resp = Some(resp)]
    /\ Quiet
    /\ UNCHANGED << instant, locks, ring_size, ring, record, files, intercept_pattern,
                    intercept_queue, chan, clock, ws, hist >>

\* the client closes its connection while the body is streamed: the body, that
\* is the generator of lines 408-448 with the upstream stream and every chunk it
\* holds, is dropped where it is suspended; none of its remaining code runs
client_disconnect(t) ==
    /\ task[t].pc = "stream"
    /\ task' = [task EXCEPT ![t].pc = "aborted"]
    /\ Quiet
    /\ UNCHANGED << instant, locks, ring_size, ring, record, files, intercept_pattern,
                    intercept_queue, chan, clock, ws, hist >>

\* a millisecond passes
tick ==
    /\ instant < MaxTime
    /\ instant' = instant + 1
    /\ Quiet
    /\ UNCHANGED << locks, ring_size, ring, record, files, intercept_pattern,
                    intercept_queue, chan, clock, task, ws, hist >>

\* line 379 fails (no connection, invalid URI): proxy_handler answers 502
proxy_upstream_error(t) ==
    /\ task[t].pc = "forward"
    /\ LET req == Unwrap(task[t].stored_req)
       IN task' = [task EXCEPT
                     ![t].pc = "done",
                     ![t].status = 502,
                     ![t].upstream_req =
                         Some(build_upstream_req(Unwrap(task[t].inbound), req))]
    /\ Quiet
    /\ UNCHANGED << instant, locks, ring_size, ring, record, files, intercept_pattern,
                    intercept_queue, chan, clock, ws, hist >>

(* --------------------------- store_interaction ------------------------- *)

\* the ids of the interactions a ring holds
RingIds(r) == {r[k].id : k \in 1 .. Len(r)}

\* mutant of ring_push: the ring over its size is popped at the front
ring_push_pop_front(r, i, size) ==
    LET pushed == << i >> \o r
    IN IF Len(pushed) > size THEN Tail(pushed) ELSE pushed

\* lines 542-545: push_front, then pop_back when the ring is over its size
ring_push(r, i, size) ==
    LET pushed == << i >> \o r
    IN IF Len(pushed) > size THEN SubSeq(pushed, 1, Len(pushed) - 1) ELSE pushed

\* broadcast::Sender::send as a subscribed receiver sees it: the backlog keeps
\* the last BusCap values, a receiver that is further behind has lagged
bus_send(w, i) ==
    IF w.state # "open" THEN w
    ELSE IF Len(w.queue) >= BusCap
         THEN [w EXCEPT !.queue = Append(Tail(@), i), !.lagged = TRUE]
         ELSE [w EXCEPT !.queue = Append(@, i)]

\* the ids sent on the bus while the session was subscribed, in sending order
bus_heard(w, heard, i) ==
    IF w.state = "open" THEN Append(heard, i.id) ELSE heard

\* mutant of store_ring: the interaction is sent on the bus before it is pushed
store_ring_published_first(t) ==
    /\ Free("ring")
    /\ task[t].pc = "store"
    /\ LET i == Unwrap(task[t].interaction)
       IN /\ ws' = bus_send(ws, i)
          /\ hist' = [hist EXCEPT !.published = @ \cup {i.id}]
    /\ task' = [task EXCEPT ![t].pc = "publish"]
    /\ Quiet
    /\ UNCHANGED << instant, locks, ring_size, ring, record, files, intercept_pattern,
                    intercept_queue, chan, clock >>

\* lines 540-546: the ring's critical section
store_ring(t) ==
    /\ Free("ring")
    /\ task[t].pc = "store"
    /\ LET i == Unwrap(task[t].interaction)
       IN /\ ring' = ring_push(ring, i, ring_size)
          /\ hist' = [hist EXCEPT !.stored = @ \cup {[id |-> i.id,
                                                      recorded_at |-> i.recorded_at]},
                                  !.order = Append(@, i.id)]
    /\ task' = [task EXCEPT ![t].pc = "publish"]
    /\ Quiet
    /\ UNCHANGED << instant, locks, ring_size, record, files, intercept_pattern, intercept_queue,
                    chan, clock, ws >>

\* line 548
store_broadcast(t) ==
    /\ task[t].pc = "publish"
    /\ LET i == Unwrap(task[t].interaction)
       IN /\ ws' = bus_send(ws, i)
          /\ hist' = [hist EXCEPT !.published = @ \cup {i.id},
                                  !.heard = bus_heard(ws, @, i)]
    /\ task' = [task EXCEPT ![t].pc = "record"]
    /\ Quiet
    /\ UNCHANGED << instant, locks, ring_size, ring, record, files, intercept_pattern,
                    intercept_queue, chan, clock >>

\* the status the client gets once store_interaction has returned (line 489)
client_status(tk) == Unwrap(tk.interaction).response.status

\* mutant of store_record: when recording is on the record guard is not dropped
\* before the cassette writer is called
store_record_keeps_lock(t) ==
    /\ Free("record")
    /\ task[t].pc = "record"
    /\ task' = IF record.enabled
               THEN [task EXCEPT ![t].pc = "write",
                                 ![t].rec_path = Some(record.output)]
               ELSE [task EXCEPT ![t].pc = "done",
                                 ![t].status = client_status(task[t])]
    /\ locks' = IF record.enabled THEN [locks EXCEPT !["record"] = t] ELSE locks
    /\ Quiet
    /\ UNCHANGED << instant, ring_size, ring, record, files, intercept_pattern,
                    intercept_queue, chan, clock, ws, hist >>

\* lines 554-557: the record lock is taken, enabled and output are read, and the
\* guard is dropped (557) or goes out of scope at the end of the function
store_record(t) ==
    /\ Free("record")
    /\ task[t].pc = "record"
    /\ task' = IF record.enabled
               THEN [task EXCEPT ![t].pc = "write",
                                 ![t].rec_path = Some(record.output)]
               ELSE [task EXCEPT ![t].pc = "done",
                                 ![t].status = client_status(task[t])]
    /\ Quiet
    /\ UNCHANGED << instant, locks, ring_size, ring, record, files, intercept_pattern,
                    intercept_queue, chan, clock, ws, hist >>

\* mutant of cassette_interactions: the allow-list is not applied
cassette_interactions_unfiltered(r, ids) ==
    [k \in 1 .. Len(r) |-> redact_interaction(r[k])]

\* lines 875-879: the interactions a cassette is written with
cassette_interactions(r, ids) ==
    LET Keep(i) == ids = None \/ i.id \in Unwrap(ids)
    IN SelectSeq([k \in 1 .. Len(r) |-> redact_interaction(r[k])], Keep)

\* mutant of store_write: the file is written with the ring as it was when this
\* request was pushed, read before the lock was given up
store_write_stale(t, ok) ==
    /\ Free("ring")
    /\ task[t].pc = "write"
    /\ LET mine == CHOOSE k \in 1 .. Len(ring) : ring[k].id = interaction_id(t)
           then == IF interaction_id(t) \in RingIds(ring)
                   THEN SubSeq(ring, mine, Len(ring))
                   ELSE << Unwrap(task[t].interaction) >>
       IN files' = IF ok
                   THEN [files EXCEPT ![Unwrap(task[t].rec_path)] =
                             Some(cassette_interactions(then, None))]
                   ELSE files
    /\ hist' = IF ok THEN [hist EXCEPT !.writes = @ + 1]
               ELSE [hist EXCEPT !.failed = TRUE]
    /\ task' = IF ok
               THEN [task EXCEPT ![t].pc = "count"]
               ELSE [task EXCEPT ![t].pc = "done",
                                 ![t].status = client_status(task[t])]
    /\ Quiet
    /\ UNCHANGED << instant, locks, ring_size, ring, record, intercept_pattern, intercept_queue,
                    chan, clock, ws >>

\* mutant of store_write: a failed write goes on to the count as well
store_write_counts_failure(t, ok) ==
    /\ Free("ring")
    /\ task[t].pc = "write"
    /\ files' = IF ok
                THEN [files EXCEPT ![Unwrap(task[t].rec_path)] =
                          Some(cassette_interactions(ring, None))]
                ELSE files
    /\ hist' = IF ok THEN [hist EXCEPT !.writes = @ + 1]
               ELSE [hist EXCEPT !.failed = TRUE]
    /\ task' = [task EXCEPT ![t].pc = "count"]
    /\ Quiet
    /\ UNCHANGED << instant, locks, ring_size, ring, record, intercept_pattern, intercept_queue,
                    chan, clock, ws >>

\* line 558: write_cassette under the ring lock; the write succeeds or fails
store_write(t, ok) ==
    /\ Free("ring")
    /\ task[t].pc = "write"
    /\ files' = IF ok
                THEN [files EXCEPT ![Unwrap(task[t].rec_path)] =
                          Some(cassette_interactions(ring, None))]
                ELSE files
    /\ hist' = IF ok THEN [hist EXCEPT !.writes = @ + 1]
               ELSE [hist EXCEPT !.failed = TRUE]
    /\ task' = IF ok
               THEN [task EXCEPT ![t].pc = "count"]
               ELSE [task EXCEPT ![t].pc = "done",
                                 ![t].status = client_status(task[t])]
    /\ Quiet
    /\ UNCHANGED << instant, locks, ring_size, ring, record, intercept_pattern, intercept_queue,
                    chan, clock, ws >>

\* write_cassette, lines 875-891, up to the await of tokio::fs::write: the ring
\* lock is taken, the ring is copied redacted and serialized, the write starts
write_cassette_begin(t) ==
    /\ Free("ring")
    /\ task[t].pc = "write"
    /\ locks' = [locks EXCEPT !["ring"] = t]
    /\ task' = [task EXCEPT ![t].pc = "writing",
                            ![t].snapshot = Some(cassette_interactions(ring, None))]
    /\ Quiet
    /\ UNCHANGED << instant, ring_size, ring, record, files, intercept_pattern,
                    intercept_queue, chan, clock, ws, hist >>

\* write_cassette, lines 891-896: the write ends, well or not; the ring guard
\* goes out of scope when the function returns
write_cassette_end(t, ok) ==
    /\ task[t].pc = "writing"
    /\ files' = IF ok
                THEN [files EXCEPT ![Unwrap(task[t].rec_path)] = task[t].snapshot]
                ELSE files
    /\ hist' = IF ok THEN [hist EXCEPT !.writes = @ + 1]
               ELSE [hist EXCEPT !.failed = TRUE]
    /\ locks' = [locks EXCEPT !["ring"] = 0]
    /\ task' = IF ok
               THEN [task EXCEPT ![t].pc = "count", ![t].snapshot = None]
               ELSE [task EXCEPT ![t].pc = "done", ![t].snapshot = None,
                                 ![t].status = client_status(task[t])]
    /\ Quiet
    /\ UNCHANGED << instant, ring_size, ring, record, intercept_pattern, intercept_queue,
                    chan, clock, ws >>

\* lines 559-560
store_count(t) ==
    /\ Free("record")
    /\ task[t].pc = "count"
    /\ record' = [record EXCEPT !.count = @ + 1]
    /\ task' = [task EXCEPT ![t].pc = "done", ![t].status = client_status(task[t])]
    /\ Quiet
    /\ UNCHANGED << instant, locks, ring_size, ring, files, intercept_pattern, intercept_queue,
                    chan, clock, ws, hist >>

(* ----------------------------- admin plane ---------------------------- *)

\* ring.iter().find(|x| x.id == id)
\* mutant of ring_find: an id that is not in the ring finds the newest entry
ring_find_or_front(r, id) ==
    IF id \in RingIds(r)
    THEN Some(r[CHOOSE k \in 1 .. Len(r) : r[k].id = id])
    ELSE IF r # << >> THEN Some(r[1]) ELSE None

ring_find(r, id) ==
    IF id \in RingIds(r)
    THEN Some(r[CHOOSE k \in 1 .. Len(r) : r[k].id = id])
    ELSE None

Answer(op, id, status, n) ==
    [op |-> op, id |-> id, status |-> status, n |-> n, arg |-> None]

\* mutant of list_items: the ring is walked from its back
list_items_oldest_first(r, filter) ==
    LET Keep(i) == filter = None \/ evaluate_expression(Unwrap(filter), i)
    IN SelectSeq([k \in 1 .. Len(r) |-> redact_interaction(r[Len(r) + 1 - k])], Keep)

\* lines 632-635: the redacted copies, then the filter
list_items(r, filter) ==
    LET Keep(i) == filter = None \/ evaluate_expression(Unwrap(filter), i)
    IN SelectSeq([k \in 1 .. Len(r) |-> redact_interaction(r[k])], Keep)

\* mutant of list_requests_handler: the ring's entries are redacted in place
list_requests_handler_in_place(filter) ==
    /\ Free("ring")
    /\ out' = [via |-> "list", items |-> list_items(ring, filter)]
    /\ admin' = [Answer("list", 0, 200, Len(list_items(ring, filter)))
                    EXCEPT !.arg = filter]
    /\ ring' = [k \in 1 .. Len(ring) |-> redact_interaction(ring[k])]
    /\ UNCHANGED << instant, locks, ring_size, record, files, intercept_pattern,
                    intercept_queue, chan, clock, task, ws, hist >>

list_requests_handler(filter) ==
    /\ Free("ring")
    /\ out' = [via |-> "list", items |-> list_items(ring, filter)]
    /\ admin' = [Answer("list", 0, 200, Len(list_items(ring, filter)))
                    EXCEPT !.arg = filter]
    /\ UNCHANGED << instant, locks, ring_size, ring, record, files, intercept_pattern,
                    intercept_queue, chan, clock, task, ws, hist >>

\* lines 643-647
get_request(r, id) ==
    LET found == ring_find(r, id)
    IN IF found # None
       THEN [status |-> 200, items |-> << redact_interaction(Unwrap(found)) >>]
       ELSE [status |-> 404, items |-> << >>]

get_request_handler(id) ==
    /\ Free("ring")
    /\ out' = [via |-> "get", items |-> get_request(ring, id).items]
    /\ admin' = Answer("get", id, get_request(ring, id).status, 0)
    /\ UNCHANGED << instant, locks, ring_size, ring, record, files, intercept_pattern,
                    intercept_queue, chan, clock, task, ws, hist >>

clear_requests_handler ==
    /\ Free("ring")
    /\ ring' = << >>
    /\ hist' = [hist EXCEPT !.cleared = TRUE]
    /\ admin' = Answer("clear", 0, 200, 0)
    /\ out' = OutNone
    /\ UNCHANGED << instant, locks, ring_size, record, files, intercept_pattern, intercept_queue,
                    chan, clock, task, ws >>

\* write_cassette against the caller's path and allow-list; the write may fail
save_requests_handler(path, ids, ok) ==
    /\ Free("ring")
    /\ files' = IF ok
                THEN [files EXCEPT ![path] = Some(cassette_interactions(ring, ids))]
                ELSE files
    /\ admin' = IF ok
                THEN [Answer("save", 0, 200, Len(cassette_interactions(ring, ids)))
                         EXCEPT !.arg = ids]
                ELSE [Answer("save", 0, 400, 0) EXCEPT !.arg = ids]
    /\ out' = OutNone
    /\ UNCHANGED << instant, locks, ring_size, ring, record, intercept_pattern, intercept_queue,
                    chan, clock, task, ws, hist >>

\* lines 725-737: what the command is rendered from
curl_command(item) ==
    [method  |-> item.request.method,
     url     |-> [base |-> UpstreamBase, path |-> item.request.path, query |-> ""],
     headers |-> item.request.headers,
     body    |-> json_value_to_body_string(item.request.body)]

curl_request_handler(id) ==
    /\ Free("ring")
    /\ LET found == ring_find(ring, id)
       IN /\ out' = [via |-> "curl",
                     items |-> IF found # None
                               THEN << curl_command(Unwrap(found)) >> ELSE << >>]
          /\ admin' = Answer("curl", id, IF found # None THEN 200 ELSE 404, 0)
    /\ UNCHANGED << instant, locks, ring_size, ring, record, files, intercept_pattern,
                    intercept_queue, chan, clock, task, ws, hist >>

\* lines 683-698: the request a replay sends
replay_request(item) ==
    [method  |-> item.request.method,
     url     |-> [base |-> UpstreamBase, path |-> item.request.path, query |-> ""],
     headers |-> [k \in {n \in DOMAIN item.request.headers :
                            n \notin {"host", "content-length"}}
                    |-> item.request.headers[k]],
     body    |-> json_value_to_body_string(item.request.body)]

\* the stored request is sent again; the upstream answers (200 with its
\* status) or the call fails (502); nothing is stored
replay_request_handler(id, ok) ==
    /\ Free("ring")
    /\ LET found == ring_find(ring, id)
       IN /\ out' = [via |-> "replay",
                     items |-> IF found # None
                               THEN << replay_request(Unwrap(found)) >> ELSE << >>]
          /\ admin' = IF found = None THEN Answer("replay", id, 404, 0)
                      ELSE IF ok THEN Answer("replay", id, 200, UpstreamOk.status)
                      ELSE Answer("replay", id, 502, 0)
    /\ UNCHANGED << instant, locks, ring_size, ring, record, files, intercept_pattern,
                    intercept_queue, chan, clock, task, ws, hist >>

toggle_record_handler(enabled, output) ==
    /\ Free("record")
    /\ record' = [record EXCEPT !.enabled = enabled,
                                !.output = IF output # None THEN Unwrap(output) ELSE @]
    /\ admin' = Answer("record", 0, 200, record.count)
    /\ out' = OutNone
    /\ hist' = [hist EXCEPT !.toggled = TRUE]
    /\ UNCHANGED << instant, locks, ring_size, ring, files, intercept_pattern, intercept_queue,
                    chan, clock, task, ws >>

set_intercept_pattern_handler(pattern) ==
    /\ intercept_pattern' = pattern
    /\ admin' = Answer("pattern", 0, 200, 0)
    /\ out' = OutNone
    /\ UNCHANGED << instant, locks, ring_size, ring, record, files, intercept_queue, chan,
                    clock, task, ws, hist >>

\* the ids of a map in increasing order (the listing's order is unspecified)
RECURSIVE SortedIds(_)
SortedIds(S) ==
    IF S = {} THEN << >>
    ELSE LET m == CHOOSE x \in S : \A y \in S : x <= y
         IN << m >> \o SortedIds(S \ {m})

\* lines 777-788: one JSON object for every pending entry
queue_items(q) ==
    LET ids == SortedIds(DOMAIN q)
    IN [k \in 1 .. Len(ids) |->
          [id      |-> ids[k],
           method  |-> q[ids[k]].request.method,
           path    |-> q[ids[k]].request.path,
           headers |-> q[ids[k]].request.headers,
           body    |-> q[ids[k]].request.body]]

intercept_queue_handler ==
    /\ out' = [via |-> "queue", items |-> queue_items(intercept_queue)]
    /\ admin' = Answer("queue", 0, 200, Cardinality(DOMAIN intercept_queue))
    /\ UNCHANGED << instant, locks, ring_size, ring, record, files, intercept_pattern,
                    intercept_queue, chan, clock, task, ws, hist >>

\* mutant of queue_remove: the entry is looked up and left in the map
queue_remove_kept(q, id) == q

\* queue.remove(&id), lines 798 and 815
queue_remove(q, id) == Del(q, id)

\* oneshot::Sender::send: the value is stored when the receiver is still there
oneshot_send(c, action) == IF c.rx THEN [c EXCEPT !.msg = Some(action)] ELSE c

Bump(f, k) == [f EXCEPT ![k] = @ + 1]

\* release and drop share their body: remove the entry, fire its sender
resolve_intercept(op, id, action) ==
    /\ IF id \in DOMAIN intercept_queue
       THEN /\ intercept_queue' = queue_remove(intercept_queue, id)
            /\ chan' = [chan EXCEPT ![id] = oneshot_send(@, action)]
            /\ admin' = Answer(op, id, 200, 0)
            /\ hist' = [hist EXCEPT !.ok_calls = Bump(@, id),
                                    !.removed = Bump(@, id),
                                    !.sends = Bump(@, id),
                                    !.sent = [@ EXCEPT ![id] = Some(action)]]
       ELSE /\ admin' = Answer(op, id, 404, 0)
            /\ UNCHANGED << intercept_queue, chan, hist >>
    /\ out' = OutNone
    /\ UNCHANGED << instant, locks, ring_size, ring, record, files, intercept_pattern, clock,
                    task, ws >>

release_intercept_handler(id, input) ==
    resolve_intercept("release", id, ActionRelease(input))

drop_intercept_handler(id) ==
    resolve_intercept("drop", id, ActionDrop)

(* --------------------------- WebSocket push ---------------------------- *)

\* ws_handler, line 829: the session subscribes to the broadcaster
ws_subscribe ==
    /\ ws.state = "none"
    /\ ws' = [ws EXCEPT !.state = "open"]
    /\ Quiet
    /\ UNCHANGED << instant, locks, ring_size, ring, record, files, intercept_pattern,
                    intercept_queue, chan, clock, task, hist >>

\* the peer closes the connection; the session is blocked in recv (line 831)
\* and reads nothing from the socket, so nothing in it changes
ws_peer_gone ==
    /\ ws.state = "open"
    /\ ws.peer = "up"
    /\ ws' = [ws EXCEPT !.peer = "gone"]
    /\ Quiet
    /\ UNCHANGED << instant, locks, ring_size, ring, record, files, intercept_pattern,
                    intercept_queue, chan, clock, task, hist >>

\* mutant of ws_push: the value is sent to the peer but stays in the backlog
ws_push_peeks ==
    /\ ws.state = "open"
    /\ ~ws.lagged
    /\ ws.queue # << >>
    /\ Len(hist.pushed) < NMax
    /\ ws.peer = "up"
    /\ ws' = ws
    /\ out' = [via |-> "ws", items |-> << redact_interaction(Head(ws.queue)) >>]
    /\ hist' = [hist EXCEPT !.pushed = Append(@, Head(ws.queue).id)]
    /\ admin' = AdminNone
    /\ UNCHANGED << instant, locks, ring_size, ring, record, files, intercept_pattern,
                    intercept_queue, chan, clock, task >>

\* lines 831-843: one value is received and sent, redacted, to the peer; the
\* send fails when the peer is gone and the session ends (lines 836-842)
ws_push ==
    /\ ws.state = "open"
    /\ ~ws.lagged
    /\ ws.queue # << >>
    /\ IF ws.peer = "up"
       THEN /\ ws' = [ws EXCEPT !.queue = Tail(@)]
            /\ out' = [via |-> "ws",
                       items |-> << redact_interaction(Head(ws.queue)) >>]
            /\ hist' = [hist EXCEPT !.pushed = Append(@, Head(ws.queue).id)]
       ELSE /\ ws' = [ws EXCEPT !.state = "closed", !.queue = << >>]
            /\ out' = OutNone
            /\ hist' = hist
    /\ admin' = AdminNone
    /\ UNCHANGED << instant, locks, ring_size, ring, record, files, intercept_pattern,
                    intercept_queue, chan, clock, task >>

\* line 844: recv fails because the receiver lagged; the session ends
ws_lagged ==
    /\ ws.state = "open"
    /\ ws.lagged
    /\ ws' = [ws EXCEPT !.state = "closed", !.queue = << >>]
    /\ Quiet
    /\ UNCHANGED << instant, locks, ring_size, ring, record, files, intercept_pattern,
                    intercept_queue, chan, clock, task, hist >>

(* --------------------------- specifications --------------------------- *)

\* ids an operator may name: every intercept id handed out, and 0, which never was
KnownIds == DOMAIN chan \cup {0}

\* ids of interactions an operator may name: every id handed out, and 0
AnyId == 0 .. NMax

\* the part of the data path every scenario runs, for requests drawn from rs
ProxySteps(t, rs) ==
    \/ \E r \in rs : proxy_start(t, r)
    \/ proxy_forward(t, UpstreamOk)
    \/ store_ring(t)
    \/ store_broadcast(t)
    \/ store_record(t)

InterceptSteps(t) ==
    \/ intercept_enqueue(t)
    \/ intercept_wake(t)
    \/ intercept_timeout(t)

\* intercept scenarios: a pattern is set at start-up; the operator releases and
\* drops while requests arrive, some of which the pattern matches
InitIcpt == InitWith(MaxRingSize, Some(PPath), FALSE)

NextIcpt ==
    \/ \E t \in 1 .. NIcpt : ProxySteps(t, Inbound) \/ InterceptSteps(t)
    \/ \E id \in KnownIds, input \in ReleaseInputs : release_intercept_handler(id, input)
    \/ \E id \in KnownIds : drop_intercept_handler(id)

SpecIcpt == InitIcpt /\ [][NextIcpt]_vars

\* ring scenarios: concurrent stores, clears and a subscriber
InitRing == \E rs \in 1 .. MaxRingSize : InitWith(rs, None, FALSE)

NextRing ==
    \/ \E t \in 1 .. NRing : ProxySteps(t, {InboundB})
    \/ clear_requests_handler
    \/ ws_subscribe
    \/ ws_push
    \/ ws_lagged

SpecRing == InitRing /\ [][NextRing]_vars

\* egress scenarios: recording is on, every way out of the core is used
InitEgress == InitWith(MaxRingSize, Some(PPath), TRUE)

NextEgress ==
    \/ \E t \in 1 .. NEgress : ProxySteps(t, Inbound) \/ InterceptSteps(t)
    \/ \E t \in 1 .. NEgress, ok \in BOOLEAN : store_write(t, ok)
    \/ \E t \in 1 .. NEgress : store_count(t)
    \/ \E id \in KnownIds, input \in ReleaseInputs : release_intercept_handler(id, input)
    \/ \E f \in {None, Some(PPath)} : list_requests_handler(f)
    \/ \E id \in AnyId : get_request_handler(id)
    \/ \E id \in AnyId : curl_request_handler(id)
    \/ \E ids \in {None, Some({1})}, ok \in BOOLEAN :
          save_requests_handler(SavePath, ids, ok)
    \/ intercept_queue_handler
    \/ ws_subscribe
    \/ ws_push

SpecEgress == InitEgress /\ [][NextEgress]_vars

\* admin scenarios: no recording; the operator reads, exports and replays while
\* requests are stored
InitAdmin == InitWith(MaxRingSize, None, FALSE)

ReadSteps(ids) ==
    \/ \E f \in {None, Some(PPath)} : list_requests_handler(f)
    \/ \E id \in ids : get_request_handler(id)
    \/ \E id \in ids : curl_request_handler(id)
    \/ \E id \in ids, ok \in BOOLEAN : replay_request_handler(id, ok)
    \/ \E sel \in {None, Some({1}), Some({0})}, ok \in BOOLEAN :
          save_requests_handler(SavePath, sel, ok)
    \/ intercept_queue_handler

NextAdmin ==
    \/ \E t \in 1 .. NAdmin : ProxySteps(t, Inbound)
    \/ ReadSteps(0 .. NAdmin)
    \/ ws_subscribe
    \/ ws_push

SpecAdmin == InitAdmin /\ [][NextAdmin]_vars

\* list scenarios: requests are stored while the operator lists the ring with
\* and without a filter
InitList == \E rs \in 1 .. MaxRingSize : InitWith(rs, None, FALSE)

NextList ==
    \/ \E t \in 1 .. NList : ProxySteps(t, Inbound)
    \/ \E f \in {None, Some(PPath), Some(PBroken)} : list_requests_handler(f)

SpecList == InitList /\ [][NextList]_vars

\* predicate scenarios: the operator sets intercept patterns and lists with
\* filters that do not compile, yield no boolean or fail when run
InitPred == InitWith(MaxRingSize, Some(PBroken), FALSE)

NextPred ==
    \/ \E t \in 1 .. NPred : ProxySteps(t, Inbound)
    \/ \E p \in {None} \cup {Some(b) : b \in BadPredicates} :
          set_intercept_pattern_handler(p)
    \/ \E f \in {None, Some(PPath)} \cup {Some(b) : b \in BadPredicates} :
          list_requests_handler(f)
    \/ intercept_queue_handler

SpecPred == InitPred /\ [][NextPred]_vars

\* upstream scenarios: buffered and streamed responses, with and without a
\* usage object, calls that fail and bodies that cannot be read to their end
InitStream == \E rs \in 1 .. MaxRingSize : InitWith(rs, None, FALSE)

StreamSteps(t) ==
    \/ \E r \in Inbound : proxy_start(t, r)
    \/ \E resp \in {UpstreamOk} \cup UpstreamUsages : proxy_forward(t, resp)
    \/ proxy_body_error(t, UpstreamBodyErr)
    \/ proxy_upstream_error(t)
    \/ \E resp \in UpstreamStreams : proxy_stream_open(t, resp)
    \/ stream_next(t)
    \/ stream_end(t)
    \/ \E resp \in UpstreamUsages : usage_panic(t, resp)
    \/ store_ring(t)
    \/ store_broadcast(t)
    \/ store_record(t)

NextStream ==
    \/ \E t \in 1 .. NStream : StreamSteps(t)
    \/ list_requests_handler(None)
    \/ ws_subscribe
    \/ ws_push

SpecStream == InitStream /\ [][NextStream]_vars

\* recording scenarios: recording is on at start-up; concurrent stores rewrite
\* the cassette, writes fail, the operator toggles recording; the ring is
\* smaller than the number of requests, so that stores evict
InitRec == InitWith(MaxRingSize - 1, None, TRUE)

NextRec ==
    \/ \E t \in 1 .. NRec : ProxySteps(t, {InboundB})
    \/ \E t \in 1 .. NRec, ok \in BOOLEAN : store_write(t, ok)
    \/ \E t \in 1 .. NRec : store_count(t)
    \/ \E enabled \in BOOLEAN : toggle_record_handler(enabled, None)

SpecRec == InitRec /\ [][NextRec]_vars


\* lookups of ids that are gone: a ring of one slot evicts, the operator clears
\* the ring and resolves intercepted requests, and every by-id endpoint is
\* called with ids that never existed, were evicted, cleared or resolved. One
\* client sends its requests one after the other
InitGone == InitWith(MaxRingSize - 1, Some(PPath), FALSE)

Answered(t) == task[t].pc \in {"done", "aborted"}

NextGone ==
    \/ \E t \in 1 .. NGone :
          /\ \A u \in 1 .. t - 1 : Answered(u)
          /\ ProxySteps(t, Inbound) \/ InterceptSteps(t)
    \/ \E id \in AnyId : get_request_handler(id)
    \/ \E id \in AnyId : curl_request_handler(id)
    \/ \E id \in AnyId, ok \in BOOLEAN : replay_request_handler(id, ok)
    \/ \E id \in KnownIds :
          release_intercept_handler(id, [headers |-> None, body |-> None])
    \/ \E id \in KnownIds : drop_intercept_handler(id)
    \/ clear_requests_handler

SpecGone == InitGone /\ [][NextGone]_vars


\* body round trips: clients send each kind of JSON text; the operator reads
\* and replays what was stored
InitBody == \E rs \in 1 .. MaxRingSize : InitWith(rs, None, FALSE)

NextBody ==
    \/ \E t \in 1 .. NBody : ProxySteps(t, InboundJson)
    \/ list_requests_handler(None)
    \/ \E id \in 0 .. NBody : get_request_handler(id)
    \/ \E id \in 0 .. NBody, ok \in BOOLEAN : replay_request_handler(id, ok)

SpecBody == InitBody /\ [][NextBody]_vars


\* push sessions: concurrent requests are stored and published while a session
\* subscribes, is pushed to, falls behind, or loses its peer
InitWs == InitWith(MaxRingSize, None, FALSE)

NextWs ==
    \/ \E t \in 1 .. NWs : ProxySteps(t, {InboundB})
    \/ ws_subscribe
    \/ ws_push
    \/ ws_lagged
    \/ ws_peer_gone

SpecWs == InitWs /\ [][NextWs]_vars


\* locks: recording is on and the cassette write is followed from its start to
\* its end, while other requests are stored and the operator lists the ring
InitLock == InitWith(MaxRingSize, None, TRUE)

NextLock ==
    \/ \E t \in 1 .. NLock : ProxySteps(t, {InboundB})
    \/ \E t \in 1 .. NLock : write_cassette_begin(t)
    \/ \E t \in 1 .. NLock, ok \in BOOLEAN : write_cassette_end(t, ok)
    \/ \E t \in 1 .. NLock : store_count(t)
    \/ list_requests_handler(None)

SpecLock == InitLock /\ [][NextLock]_vars


\* event streams in time: the upstream takes its time to answer and to send
\* each chunk, and the client may leave while the body is streamed
InitSse == InitWith(MaxRingSize, None, FALSE)

NextSse ==
    \/ \E t \in 1 .. NSse :
          \/ proxy_start(t, InboundA)
          \/ \E resp \in UpstreamStreams : proxy_stream_open(t, resp)
          \/ stream_next(t)
          \/ stream_end(t)
          \/ client_disconnect(t)
          \/ store_ring(t)
          \/ store_broadcast(t)
          \/ store_record(t)
    \/ tick

SpecSse == InitSse /\ [][NextSse]_vars


\* the intercept pattern changes under way: the operator sets and clears it
\* while requests arrive, wait and are resolved
PatternInputs == {None, Some(PTrace), Some(PCookie), Some(PFinal)}

InitPat == \E p \in {None, Some(PTrace)} : InitWith(MaxRingSize, p, FALSE)

NextPat ==
    \/ \E t \in 1 .. NPat : ProxySteps(t, {InboundB, InboundC}) \/ InterceptSteps(t)
    \/ \E p \in PatternInputs : set_intercept_pattern_handler(p)
    \/ \E id \in KnownIds :
          release_intercept_handler(id, [headers |-> None, body |-> None])
    \/ \E id \in KnownIds : drop_intercept_handler(id)

SpecPat == InitPat /\ [][NextPat]_vars


\* probing with the list filter: requests are intercepted and released, some
\* with headers the operator posts, and the ring is listed with filters that
\* compare the value of the authorization header
InitProbe == InitWith(MaxRingSize, Some(PPath), FALSE)

NextProbe ==
    \/ \E t \in 1 .. NProbe : ProxySteps(t, {InboundA}) \/ InterceptSteps(t)
    \/ \E id \in KnownIds, input \in ReleaseInputs : release_intercept_handler(id, input)
    \/ \E f \in {None, Some(PAuth), Some(PAuthUpper)} : list_requests_handler(f)

SpecProbe == InitProbe /\ [][NextProbe]_vars

(* ------------------------------- claims -------------------------------- *)

Waiting(t) == task[t].pc = "waiting"

StoredIds == {s.id : s \in hist.stored}

IsDrop(t) == task[t].action # None /\ Unwrap(task[t].action).kind = "Drop"

IsRelease(t) == task[t].action # None /\ Unwrap(task[t].action).kind = "Release"

\* C1: whenever no proxy request is blocked waiting on an intercept, the
\* intercept registry is empty (every entry is removed on release, drop and
\* timeout).  Stated as the claim has it; the timeout path leaves its entry.
C1_RegistryEmptyWhenIdle ==
    (\A t \in Task : ~Waiting(t)) => DOMAIN intercept_queue = {}

\* C2: for every intercept id, release and drop calls in any order fire the
\* resolver at most once and remove the entry at most once; a call answers 200
\* exactly when it removed the entry, at most one call answers 200, a call on
\* an id that was registered is answered 404 only after another call
\* succeeded, and a request woken by the channel acts on the action sent.
C2_ResolvedOnce ==
    \A id \in DOMAIN chan :
        /\ hist.ok_calls[id] <= 1
        /\ hist.sends[id] <= 1
        /\ hist.removed[id] <= 1
        /\ hist.removed[id] = hist.ok_calls[id]
        /\ (admin.op \in {"release", "drop"} /\ admin.id = id) =>
              /\ hist.ok_calls[id] = 1
              /\ id \notin DOMAIN intercept_queue
        /\ \A t \in Task :
              (intercept_id(t) = id /\ task[t].wake = "msg") =>
                  task[t].action = hist.sent[id]

\* a second call on a resolved id was answered 404 after the request had
\* acted on the release the first call sent
C2_Witness ==
    /\ admin.op = "drop" /\ admin.status = 404 /\ admin.id \in DOMAIN chan
    /\ \E t \in Task : /\ intercept_id(t) = admin.id
                       /\ task[t].wake = "msg"
                       /\ IsRelease(t)

\* C3: a request whose intercept ended in Drop (by the operator or by the
\* timeout) answers 204, calls no upstream, and has no Interaction in the
\* ring, on the bus or in the history of either.
C3_DropStoresNothing ==
    \A t \in Task :
        IsDrop(t) =>
            /\ task[t].pc = "done"
            /\ task[t].status = 204
            /\ task[t].upstream_req = None
            /\ task[t].interaction = None
            /\ interaction_id(t) \notin RingIds(ring)
            /\ interaction_id(t) \notin StoredIds
            /\ interaction_id(t) \notin hist.published
            /\ \A k \in 1 .. Len(ws.queue) : ws.queue[k].id # interaction_id(t)

C3_Witness ==
    \E t \in Task : IsDrop(t) /\ task[t].wake = "msg" /\ task[t].status = 204

\* C4: after a Release the stored request has the supplied headers in place of
\* the original mapping (wholesale), the supplied body text re-parsed, and the
\* original value wherever nothing was supplied; the upstream request and the
\* Interaction in the ring are built from that modified request.
C4_ReleaseApplied ==
    \A t \in Task :
        IsRelease(t) =>
            LET a    == Unwrap(task[t].action)
                orig == Unwrap(task[t].orig_req)
                req  == Unwrap(task[t].stored_req)
            IN /\ req.method = orig.method /\ req.path = orig.path
               /\ a.headers # None => req.headers = Unwrap(a.headers)
               /\ a.headers = None => req.headers = orig.headers
               /\ a.body # None => req.body = text_to_json_or_string(Unwrap(a.body))
               /\ a.body = None => req.body = orig.body
               /\ task[t].upstream_req # None =>
                     /\ Unwrap(task[t].upstream_req).headers =
                            upstream_headers(req.headers)
                     /\ Unwrap(task[t].upstream_req).body =
                            json_value_to_body_string(req.body)
               /\ \A k \in 1 .. Len(ring) :
                     ring[k].id = interaction_id(t) => ring[k].request = req

\* a released request with replaced headers is in the ring
C4_Witness ==
    \E t \in Task :
        /\ IsRelease(t)
        /\ Unwrap(task[t].action).headers # None
        /\ interaction_id(t) \in RingIds(ring)
        /\ task[t].upstream_req # None

\* the position of an id in the order of insertion
InsertedAt(id) == CHOOSE k \in 1 .. Len(hist.order) : hist.order[k] = id

\* the entry of the ring that was inserted first
OldestInRing ==
    CHOOSE x \in RingIds(ring) :
        \A y \in RingIds(ring) : InsertedAt(x) <= InsertedAt(y)

LatestStored(n) ==
    {s.id : s \in {s \in hist.stored :
                      Cardinality({u \in hist.stored :
                                      u.recorded_at > s.recorded_at}) < n}}

\* C6: once ring_size or more interactions were stored and none cleared, the
\* ring holds exactly ring_size entries, the ones with the latest recorded_at.
\* Stated as the claim has it; recorded_at is read before the ring lock is taken.
C6_RingHoldsLatest ==
    (~hist.cleared /\ Cardinality(hist.stored) >= ring_size) =>
        /\ Len(ring) = ring_size
        /\ RingIds(ring) = LatestStored(ring_size)

\* C7: the id a subscriber is handed is found by GET /api/v1/requests/:id at
\* that moment.  Stated as the claim has it; the bus send happens after the
\* ring lock is released, and the receiver reads later still.
C7_ObservedIsInRing ==
    out.via = "ws" =>
        \A k \in 1 .. Len(out.items) :
            get_request(ring, out.items[k].id).status = 200

\* C8: whatever was sent on the broadcast bus, is in a receiver's backlog or
\* was pushed to a peer, had been inserted into the ring before.
C8_PublishedAfterInserted ==
    /\ hist.published \subseteq StoredIds
    /\ \A k \in 1 .. Len(ws.queue) : ws.queue[k].id \in StoredIds
    /\ out.via = "ws" => \A k \in 1 .. Len(out.items) : out.items[k].id \in StoredIds

\* a subscriber has been pushed an interaction that was published
C8_Witness ==
    /\ out.via = "ws"
    /\ out.items # << >>
    /\ out.items[1].id \in hist.published

\* a header mapping shows no value of authorization, x-api-key or api-key
Redacted(h) ==
    \A k \in DOMAIN h : Lower(k) \in SensitiveNames => h[k] = "REDACTED"

InteractionRedacted(i) ==
    Redacted(i.request.headers) /\ Redacted(i.response.headers)

\* C9: every interaction that leaves through the admin list, get-by-id, the
\* WebSocket push, a cassette file or the intercept queue listing has its
\* authorization, x-api-key and api-key values replaced by REDACTED.  Stated as
\* the claim has it; headers supplied on release keep the case they came with.
C9_EgressRedacted ==
    /\ out.via \in {"list", "get", "ws"} =>
          \A k \in 1 .. Len(out.items) : InteractionRedacted(out.items[k])
    /\ out.via = "queue" =>
          \A k \in 1 .. Len(out.items) : Redacted(out.items[k].headers)
    /\ \A p \in Paths :
          files[p] # None =>
              \A k \in 1 .. Len(Unwrap(files[p])) :
                  InteractionRedacted(Unwrap(files[p])[k])

\* C10: every header mapping an admin endpoint answers with, the headers of
\* the curl command among them, is redacted.  Stated as the claim has it; the
\* curl command is rendered from the ring's own copy.
C10_AdminHeadersRedacted ==
    /\ out.via \in {"list", "get"} =>
          \A k \in 1 .. Len(out.items) : InteractionRedacted(out.items[k])
    /\ out.via \in {"queue", "curl"} =>
          \A k \in 1 .. Len(out.items) : Redacted(out.items[k].headers)

\* C11: no admin read or export (list, get-by-id, save, curl, replay, intercept
\* queue listing, WebSocket push) changes the ring: its length, its order and
\* every stored value are the same after the step as before it.
C11_ReadsLeaveRing ==
    [][ ( \/ admin'.op \in {"list", "get", "save", "curl", "replay", "queue"}
          \/ out'.via = "ws" ) => ring' = ring ]_vars

\* a list answered with a redacted copy of an entry that holds its secret
C11_Witness ==
    /\ out.via = "list"
    /\ \E k \in 1 .. Len(ring) :
          /\ k <= Len(out.items)
          /\ out.items[k].id = ring[k].id
          /\ "x-api-key" \in DOMAIN ring[k].request.headers
          /\ ring[k].request.headers["x-api-key"] = "secret"
          /\ out.items[k].request.headers["x-api-key"] = "REDACTED"

\* the upstream call of request t failed, or an item of its body that the
\* proxy read was an error
HitUpstreamError(t) ==
    \/ task[t].pc = "done" /\ task[t].upstream_req # None /\ task[t].resp = None
    \/ /\ task[t].resp # None
       /\ LET resp == Unwrap(task[t].resp)
              read == IF is_streaming(headers_to_map(resp.headers))
                      THEN task[t].pos ELSE Len(resp.items)
          IN \E k \in 1 .. read : ~resp.items[k].ok

\* C12: a request that met an upstream error (the call failed, or the body
\* could not be read, buffered or streamed) is answered 502 and has no
\* Interaction in the ring, on the bus or in the history of either.  Stated as
\* the claim has it; the stream generator passes over a read error.
C12_UpstreamErrorIs502 ==
    \A t \in Task :
        HitUpstreamError(t) =>
            /\ task[t].status \in {0, 502}
            /\ task[t].pc = "done" => task[t].status = 502
            /\ interaction_id(t) \notin StoredIds
            /\ interaction_id(t) \notin hist.published
            /\ interaction_id(t) \notin RingIds(ring)

ChunkData(chunks) == [c \in 1 .. Len(chunks) |-> [data |-> chunks[c].data]]

\* the items of the stream of request t that arrived as bytes, as chunks
ReadChunks(t) ==
    LET items == Unwrap(task[t].resp).items
    IN [c \in 1 .. Len(SelectSeq(items, LAMBDA i : i.ok)) |->
           [data |-> SelectSeq(items, LAMBDA i : i.ok)[c].data]]

Insertions(t) ==
    Cardinality({k \in 1 .. Len(hist.order) : hist.order[k] = interaction_id(t)})

\* the client of request t has the whole response of the upstream: the
\* buffered response was returned, or the streamed body has ended
ClientComplete(t) ==
    /\ task[t].pc = "done"
    /\ task[t].resp # None
    /\ task[t].status = Unwrap(task[t].resp).status
    /\ task[t].interaction # None

\* C14: when the client has the complete response of a proxied request, the
\* Interaction of that request has been inserted into the ring, and at no time
\* was it inserted more than once.
C14_StoredBeforeComplete ==
    \A t \in Task :
        /\ Insertions(t) <= 1
        /\ ClientComplete(t) => Insertions(t) = 1

\* both a buffered and a streamed request can complete; the streamed one here
C14_Witness ==
    \E t \in Task :
        /\ ClientComplete(t)
        /\ Unwrap(task[t].interaction).response.streaming
        /\ Len(task[t].chunks) = 2
        /\ Insertions(t) = 1

\* the inbound path with its query string, as the upstream URL has it
path_and_query(url) == [path |-> url.path, query |-> url.query]

\* C15: the path stored in an Interaction's request is the inbound path with
\* its query string, so that the stored request, and a replay built from it,
\* targets the URL the original forward went to.  Stated as the claim has it;
\* the stored path is uri.path().
C15_StoredPathHasQuery ==
    \A t \in Task :
        task[t].interaction # None =>
            /\ path_and_query(replay_request(Unwrap(task[t].interaction)).url) =
                   path_and_query(Unwrap(task[t].upstream_req).url)
            /\ \A k \in 1 .. Len(out.items) :
                   (out.via = "replay" /\ admin.id = interaction_id(t)) =>
                       out.items[k].url = Unwrap(task[t].upstream_req).url

\* the record-on-store writes that succeeded and are not counted yet
Uncounted == Cardinality({t \in Task : task[t].pc = "count"})

\* no store is in flight
StoresComplete == \A t \in Task : task[t].pc \in {"idle", "done"}

\* C16: RecordState.count never decreases and goes up by exactly one for each
\* successful record-on-store write and for nothing else: it equals the number
\* of successful writes once their stores have got to the increment (no lost
\* update), a failed write leaves it alone while the interaction is in the
\* ring's history, and a toggle does not change it.
C16_CountIsWrites ==
    /\ [](record.count + Uncounted = hist.writes)
    /\ [][ /\ record'.count >= record.count
           /\ record'.count <= record.count + 1
           /\ record'.count = record.count + 1 =>
                 \E t \in Task : task[t].pc = "count" /\ task'[t].pc = "done"
           /\ \A t \in Task :
                 (task[t].pc = "write" /\ task'[t].pc = "done") =>
                     /\ record'.count = record.count
                     /\ interaction_id(t) \in StoredIds ]_vars

\* two stores wrote and counted, one of them while the other was in flight, and
\* a third write failed or not: count is 2 after two successful writes
C16_Witness ==
    /\ StoresComplete
    /\ record.count = 2
    /\ hist.writes = 2

\* C17: with recording on from the start, no failed write, no toggle and no
\* clear, once no store is in flight and at least one has completed the file at
\* the record output path holds exactly the redacted interactions of the ring,
\* in the ring's order.
C17_CassetteIsRing ==
    ( /\ StoresComplete
      /\ \E t \in Task : task[t].pc = "done"
      /\ ~hist.failed /\ ~hist.toggled /\ ~hist.cleared ) =>
        /\ files[record.output] # None
        /\ LET file == Unwrap(files[record.output])
           IN /\ Len(file) = Len(ring)
              /\ \A k \in 1 .. Len(ring) :
                    /\ file[k].id = ring[k].id
                    /\ file[k] = redact_interaction(ring[k])

\* two concurrent stores have completed, the second evicted the first, and the
\* file was written twice
C17_Witness ==
    /\ StoresComplete
    /\ ~hist.failed /\ ~hist.toggled
    /\ hist.writes = 2
    /\ Len(hist.order) > Len(ring)
    /\ files[record.output] # None

\* C18: a predicate that does not compile, yields no boolean or fails when run
\* is false in every use: a request that arrives while it is the intercept
\* pattern is forwarded and not enqueued, a list filtered by it is empty, and
\* neither step changes the ring, the intercept registry or the record state.
C18_BadPredicateIsFalse ==
    [][ /\ \A t \in Task :
             ( /\ task[t].pc = "idle" /\ task'[t].pc # "idle"
               /\ intercept_pattern # None
               /\ Unwrap(intercept_pattern) \in BadPredicates ) =>
                 /\ task'[t].pc = "forward"
                 /\ intercept_queue' = intercept_queue
                 /\ ring' = ring /\ record' = record
        /\ ( /\ admin'.op = "list"
             /\ admin'.arg # None
             /\ Unwrap(admin'.arg) \in BadPredicates ) =>
               /\ admin'.status = 200
               /\ out'.items = << >>
               /\ intercept_queue' = intercept_queue
               /\ ring' = ring /\ record' = record ]_vars

\* a request went through under a pattern that fails when run, and a list
\* filtered by a predicate that does not compile came back empty with the
\* request in the ring
C18_Witness ==
    /\ admin.op = "list" /\ admin.arg = Some(PBroken) /\ out.items = << >>
    /\ intercept_pattern = Some(PRuntime)
    /\ Len(ring) > 0
    /\ DOMAIN intercept_queue = {}

\* the ids stored so far, most recently stored first
NewestFirst == [k \in 1 .. Len(hist.order) |-> hist.order[Len(hist.order) + 1 - k]]

IdsOf(items) == [k \in 1 .. Len(items) |-> items[k].id]

OnMessagesPath(i) == i.request.path = "/v1/messages"

\* C19: GET /api/v1/requests answers with the redacted entries of the ring, most
\* recently stored first and without the evicted ones: the ids are the first
\* ring_size (or fewer, when fewer were stored) of the stored ids taken newest
\* first; with the filter request.path.contains('/v1/messages') the answer is
\* the sub-sequence of those entries whose path contains /v1/messages, in the
\* same order.  (No clear happens in these scenarios.)
C19_ListNewestFirst ==
    LET n      == IF Len(hist.order) < ring_size THEN Len(hist.order) ELSE ring_size
        latest == SubSeq(NewestFirst, 1, n)
        copies == [k \in 1 .. Len(ring) |-> redact_interaction(ring[k])]
    IN /\ IdsOf(ring) = latest
       /\ (out.via = "list" /\ admin.arg = None) =>
             IdsOf(out.items) = latest /\ out.items = copies
       /\ (out.via = "list" /\ admin.arg = Some(PPath)) =>
             out.items = SelectSeq(copies, OnMessagesPath)

\* a filtered list of a ring of two kept the older entry and left out the newer
C19_Witness ==
    /\ out.via = "list" /\ admin.arg = Some(PPath)
    /\ Len(ring) = 2
    /\ Len(out.items) = 1
    /\ out.items[1].id = ring[2].id

\* C20: in the metadata of every interaction in the ring, total_tokens is set
\* exactly when input_tokens and output_tokens both are, and then it is their
\* sum.  Stated as the claim has it; the sum is a u64 addition.
C20_TotalIsSum ==
    \A k \in 1 .. Len(ring) :
        LET m == ring[k].metadata
        IN /\ (m.input_tokens # None /\ m.output_tokens # None) =>
                 /\ m.total_tokens # None
                 /\ U64Add(Unwrap(m.input_tokens), Unwrap(m.output_tokens)).carry = 0
                 /\ Unwrap(m.total_tokens) =
                        U64Add(Unwrap(m.input_tokens), Unwrap(m.output_tokens)).sum
           /\ (m.input_tokens = None \/ m.output_tokens = None) =>
                 m.total_tokens = None

\* ---- admin save ----

\* the ring entries an allow-list selects, in ring order
Selected(r, ids) ==
    SelectSeq(r, LAMBDA i : ids = None \/ i.id \in Unwrap(ids))

\* C21: an admin save writes the cassette with exactly the ring interactions
\* whose id is in the allow-list (all of them without a list), in ring order
\* and with their headers redacted, answers their number as saved, answers 400
\* and writes nothing when the file write fails, and leaves the ring and the
\* record state as they were
C21_SaveWritesSelection ==
    [][admin'.op = "save" =>
          LET want == Selected(ring, admin'.arg)
          IN /\ ring' = ring
             /\ record' = record
             /\ admin'.status \in {200, 400}
             /\ admin'.status = 200 =>
                   /\ files'[SavePath] # None
                   /\ Len(Unwrap(files'[SavePath])) = Len(want)
                   /\ \A k \in 1 .. Len(want) :
                         Unwrap(files'[SavePath])[k] = redact_interaction(want[k])
                   /\ admin'.n = Len(want)
             /\ admin'.status = 400 => files' = files]_vars

\* a save with an allow-list that names a stored request has written it, and
\* the ring still holds it
C21_Witness ==
    /\ admin.op = "save"
    /\ admin.status = 200
    /\ admin.arg = Some({1})
    /\ admin.n = 1
    /\ files[SavePath] # None
    /\ Len(Unwrap(files[SavePath])) = 1
    /\ RingIds(ring) = {1}

\* ---- ids that are not present ----

\* C22: get by id, replay and curl on an id the ring does not hold, and release
\* and drop on an id the intercept registry does not hold (it never existed,
\* was evicted, was cleared or was already resolved), answer 404, send nothing
\* and leave the ring, the intercept registry and the record state unchanged
C22_AbsentIs404 ==
    [][( \/ /\ admin'.op \in {"get", "replay", "curl"}
            /\ admin'.id \notin RingIds(ring)
         \/ /\ admin'.op \in {"release", "drop"}
            /\ admin'.id \notin DOMAIN intercept_queue )
       => /\ admin'.status = 404
          /\ out'.items = << >>
          /\ ring' = ring
          /\ intercept_queue' = intercept_queue
          /\ chan' = chan
          /\ record' = record]_vars

\* an interaction that was stored and then evicted by a later store (the ring
\* was never cleared) is asked for by id, after an intercepted request has
\* been resolved
C22_Witness ==
    /\ admin.op = "get"
    /\ admin.status = 404
    /\ admin.id \in StoredIds
    /\ admin.id \notin RingIds(ring)
    /\ ring # << >>
    /\ ~hist.cleared
    /\ \E i \in DOMAIN hist.removed : hist.removed[i] = 1

\* ---- body round trip ----

\* the inbound body of request t is JSON text and its upstream request is built
SentJson(t) ==
    /\ task[t].upstream_req # None
    /\ json_parse(Unwrap(task[t].inbound).body) # None

\* C23: an inbound body that is JSON text is sent upstream as text that denotes
\* the same JSON value, whatever the kind of the value
C23_BodyRoundTrip ==
    \A t \in Task :
        SentJson(t) =>
            json_parse(Unwrap(task[t].upstream_req).body)
                = json_parse(Unwrap(task[t].inbound).body)

\* ---- push sessions ----

QueueIds(q) == [k \in 1 .. Len(q) |-> q[k].id]

\* the session is blocked in recv on an empty backlog: it takes no step until
\* another interaction is sent on the bus
SessionBlocked == ws.state = "open" /\ ~ws.lagged /\ ws.queue = << >>

\* C24: a push session that keeps up receives every interaction sent on the bus
\* since it subscribed, redacted and in order; a session whose peer has
\* disconnected, or that has fallen behind, terminates and is not left waiting;
\* a proxy task that is about to publish can always do so, whatever the state
\* of the session
C24_SessionDeliversAndEnds ==
    /\ (ws.state = "open" /\ ~ws.lagged) =>
          hist.pushed \o QueueIds(ws.queue) = hist.heard
    /\ out.via = "ws" =>
          \A k \in 1 .. Len(out.items) : InteractionRedacted(out.items[k])
    /\ ws.lagged => (ws.state = "closed" \/ ENABLED ws_lagged)
    /\ ws.peer = "gone" => ~SessionBlocked
    /\ \A t \in Task : task[t].pc = "publish" => ENABLED store_broadcast(t)

RECURSIVE IsSubSeq(_, _)
\* a is b with some of its elements left out
IsSubSeq(a, b) ==
    IF a = << >> THEN TRUE
    ELSE IF b = << >> THEN FALSE
    ELSE IF Head(a) = Head(b) THEN IsSubSeq(Tail(a), Tail(b))
    ELSE IsSubSeq(a, Tail(b))

HeldBy(t) == {l \in Locks : locks[l] = t}

\* request t is inside write_cassette, called from store_interaction
InWriter(t) == task[t].pc \in {"write", "writing"}

\* C25: no task holds two of the four locks at once; a task that is in the
\* cassette writer for record-on-store does not hold the record lock, and the
\* count is incremented only by a task that came back from a successful write
C25_OneLockAtATime ==
    /\ [](\A t \in Task : /\ Cardinality(HeldBy(t)) <= 1
                          /\ InWriter(t) => locks["record"] # t)
    /\ [][record'.count # record.count =>
            \E t \in Task : /\ task[t].pc = "count"
                             /\ task'[t].pc = "done"
                             /\ HeldBy(t) = {}
                             /\ locks' = locks]_vars

\* a request is in the middle of its cassette write
C25_Witness ==
    \E t \in Task : task[t].pc = "writing" /\ HeldBy(t) = {"ring"}

\* C26: the ring lock is not held while a cassette file is being written, so a
\* request that is ready to be pushed onto the ring can be pushed, and the
\* ring can be listed, while the write is in progress
C26_NoRingLockDuringWrite ==
    \A t \in Task :
        task[t].pc = "writing" =>
            /\ locks["ring"] # t
            /\ \A u \in Task : task[u].pc = "store" => ENABLED store_ring(u)
            /\ ENABLED list_requests_handler(None)

\* ---- event streams ----

\* the response of request t was an event stream and the request is over
StreamOver(t) ==
    /\ task[t].pc \in {"done", "aborted"}
    /\ task[t].resp # None
    /\ is_streaming(headers_to_map(Unwrap(task[t].resp).headers))

\* C27: a streaming request that is over, whether its upstream stream was read
\* to its end or its client left before, has been stored exactly once, with
\* every chunk that was received from the upstream, in arrival order
C27_StreamStoredOnce ==
    \A t \in Task :
        StreamOver(t) =>
            /\ Insertions(t) = 1
            /\ \E k \in 1 .. Len(ring) :
                  /\ ring[k].id = interaction_id(t)
                  /\ ring[k].response.chunks = task[t].chunks

RECURSIVE SumDelays(_)
SumDelays(chunks) ==
    IF chunks = << >> THEN 0 ELSE Head(chunks).delay_ms + SumDelays(Tail(chunks))

\* C28: in the Interaction built for a stream, the first chunk's delay_ms is
\* the time from the start of the request to its arrival, which is
\* latency_to_first_chunk_ms; each later chunk's delay_ms is the time from the
\* arrival of the chunk before it; the delays add up to latency_ms at most
C28_ChunkDelays ==
    \A t \in Task :
        (task[t].interaction # None /\ Unwrap(task[t].interaction).response.streaming) =>
            LET i      == Unwrap(task[t].interaction)
                chunks == i.response.chunks
                at     == task[t].arrived
            IN /\ Len(chunks) = Len(at)
               /\ \A c \in 1 .. Len(chunks) :
                     chunks[c].delay_ms =
                         IF c = 1 THEN at[1] - task[t].start ELSE at[c] - at[c - 1]
               /\ chunks # << >> =>
                     i.metadata.latency_to_first_chunk_ms = Some(chunks[1].delay_ms)
               /\ SumDelays(chunks) <= i.metadata.latency_ms

\* ---- release and drop against a request that is gone ----

\* C29: a release or drop call that answers 200 found its request still
\* waiting, and that request then acts on the action the call sent; a call for
\* a request that is no longer waiting answers 404
C29_SuccessOnlyWhileWaiting ==
    \A t \in Task :
        (admin.op \in {"release", "drop"} /\ admin.id = intercept_id(t)) =>
            /\ admin.status = 200 =>
                  /\ Waiting(t)
                  /\ chan[admin.id].msg = hist.sent[admin.id]
                  /\ chan[admin.id].msg # None
            /\ ~Waiting(t) => admin.status = 404
            /\ task[t].wake = "msg" => task[t].action = hist.sent[admin.id]

\* ---- the intercept pattern is sampled once ----

\* request t reaches the intercept step in this step
Arrives(t) == task[t].pc = "idle" /\ task'[t].pc # "idle"

\* the request the proxy keeps has the header edits and the body modifier applied
Edited(req) ==
    /\ HeaderIs([request |-> req], "x-trace", "on")
    /\ "cookie" \notin DOMAIN req.headers
    /\ req.body # JOther(BodyDraft)

\* C31: a request is enqueued exactly when, at the step it reaches the
\* intercept step, a pattern is set and is true of the request with the header
\* edits and the body modifier applied; a later set or clear of the pattern
\* changes no request and no entry; an entry is added only by the request that
\* was found to match, and leaves the registry only through release or drop;
\* a waiting request goes on only on an action sent to it or on its timeout
C31_PatternSampledOnce ==
    [][ /\ \A t \in Task :
             Arrives(t) =>
                 LET req == Unwrap(task'[t].stored_req)
                 IN /\ Edited(req)
                    /\ task'[t].pc \in {"enqueue", "forward"}
                    /\ task'[t].pc = "enqueue" <=>
                          /\ intercept_pattern # None
                          /\ evaluate_expression(Unwrap(intercept_pattern),
                                                 fake_interaction(req))
        /\ admin'.op = "pattern" =>
              /\ task' = task
              /\ intercept_queue' = intercept_queue
              /\ chan' = chan
        /\ \A t \in Task :
              /\ (intercept_id(t) \in DOMAIN intercept_queue'
                    /\ intercept_id(t) \notin DOMAIN intercept_queue) =>
                      task[t].pc = "enqueue"
              /\ (intercept_id(t) \in DOMAIN intercept_queue
                    /\ intercept_id(t) \notin DOMAIN intercept_queue') =>
                      /\ admin'.op \in {"release", "drop"}
                      /\ admin'.id = intercept_id(t)
              /\ task[t].pc = "enqueue" => task'[t].pc \in {"enqueue", "waiting"}
              /\ task[t].pc = "forward" => task'[t].pc \notin {"enqueue", "waiting"}
              /\ (Waiting(t) /\ ~Waiting(t)') =>
                    task'[t].wake \in {"msg", "timeout"} ]_vars

\* a request that matched is waiting in the registry after the pattern was
\* cleared
C31_Witness ==
    /\ admin.op = "pattern"
    /\ intercept_pattern = None
    /\ \E t \in Task :
          /\ Waiting(t)
          /\ intercept_id(t) \in DOMAIN intercept_queue
          /\ Unwrap(task[t].stored_req).body = JOther(BodyFinal)

\* ---- the list filter and secret header values ----

\* the same headers with another value for authorization, x-api-key and
\* api-key, under whatever case their names are written in
OtherSecrets(h) ==
    [k \in DOMAIN h |-> IF Lower(k) \in SensitiveNames THEN "other" ELSE h[k]]

\* a ring that differs from r only in the values of those headers
OtherRing(r) ==
    [k \in 1 .. Len(r) |->
        [r[k] EXCEPT !.request.headers  = OtherSecrets(r[k].request.headers),
                     !.response.headers = OtherSecrets(r[k].response.headers)]]

\* C32: for every filter, the list of the ring is the list of any ring that
\* differs from it only in the values of the authorization, x-api-key and
\* api-key headers
C32_ListHidesSecrets ==
    \A f \in {None, Some(PAuth), Some(PAuthUpper), Some(PPath), Some(PTrace)} :
        list_items(ring, f) = list_items(OtherRing(ring), f)

====
